---- MODULE Spec2Model ----
(***************************************************************************)
(* The three model-download scripts of photoZen: download_model.py,        *)
(* github_search.py and search_model.py.  Each walks an ordered list of    *)
(* remote sources, requests one source at a time, tests the size of what   *)
(* it got and writes files below app/src/main/assets.                      *)
(*                                                                         *)
(* The source lists are literals in the scripts; the model keeps their     *)
(* shape (one URL per entry, or UrlsPerRepo URLs per repository) and takes *)
(* their length n as an input between 0 and MaxSources.  What the remote   *)
(* end answers and whether a local write fails are choices of the          *)
(* environment, made when the statement that meets them runs.              *)
(***************************************************************************)
EXTENDS Integers, Sequences, FiniteSets, TLC

\* Longest source list explored.
MaxSources == 3

\* download_model.py line 48: if size > 500000
DM_THRESHOLD == 500000
\* github_search.py line 55: if len(content) > 500000
GS_THRESHOLD == 500000
\* github_search.py line 49: if len(content) < 100
GS_MIN_LEN == 100
\* search_model.py line 46: if size > 50000
SM_THRESHOLD == 50000
\* github_search.py lines 29-34: four URL variants per repository
UrlsPerRepo == 4

Scripts == {"download_model", "github_search", "search_model"}

\* The size against which a script tests a payload.
Threshold(s) ==
    CASE s = "download_model" -> DM_THRESHOLD
      [] s = "github_search"  -> GS_THRESHOLD
      [] s = "search_model"   -> SM_THRESHOLD

\* URLs requested per entry of the script's list.
NumUrls(s) == IF s = "github_search" THEN UrlsPerRepo ELSE 1

\* What urllib.request.urlopen does: a response, or one of its exceptions.
UrlopenOutcomes == {"ok", "http404", "http500", "urlerror", "timeout"}

\* Exceptions an attempt can raise.
Failures == {"http404", "http500", "urlerror", "timeout", "incomplete_read", "oserror"}

IsHTTPError(e) == e \in {"http404", "http500"}

\* Files.  len is the length of the payload the file is written from, size
\* the bytes it holds; src is the ordinal of the attempt that wrote it, 0 for
\* a file that was there before the run.
NoFile  == [exists |-> FALSE, src |-> 0, len |-> 0, size |-> 0]
OldFile == [exists |-> TRUE,  src |-> 0, len |-> 1, size |-> 1]
Opened(k)      == [exists |-> TRUE, src |-> k, len |-> 0, size |-> 0]
Written(k, l, w) == [exists |-> TRUE, src |-> k, len |-> l, size |-> w]

\* Bytes on disk when a write of l bytes fails part-way.
PartialSizes(l) == {0, l \div 2}

NoPass == [src |-> 0, len |-> 0]

VARIABLES
    script,          \* which script runs
    n,               \* length of its source list
    i,               \* position in the list (0 before the first entry)
    j,               \* position in the repository's urls (github_search)
    pc,              \* statement about to run
    exc,             \* exception in flight
    content,         \* length of the payload read
    temp,            \* temp_model.tflite (download_model)
    dest,            \* destination files, by destination number
    result,          \* return value of the fetch function
    downloaded_any,  \* search_model.py's flag
    exitCode,        \* process exit status, -1 while running
    reqs,            \* requests issued, in order, as <<i, j>>
    last,            \* how the latest attempt ended, "pending" while it runs
    lastLen,         \* the size tested by the latest attempt that tested one
    paused,          \* time.sleep ran since the latest request
    firstPass,       \* first payload read whose length is over the threshold
    passSaveFailed,  \* a local write of that payload failed
    finalized,       \* destination files completed and kept
    dest0,           \* the destination files as the run found them
    touched,         \* a file was created, changed or removed since the latest request
    temp2,           \* temp_model.tflite of a second run that meets the same answers
    dest2,           \* the destination file of that second run
    start2,          \* <<temp2, dest2>> as the second run found them
    agree            \* the second run took the same branches so far

vars == <<script, n, i, j, pc, exc, content, temp, dest, result, downloaded_any,
          exitCode, reqs, last, lastLen, paused, firstPass, passSaveFailed,
          finalized, dest0, touched, temp2, dest2, start2, agree>>

\* Payload lengths a server may deliver: both sides of every size test the
\* running script makes.
Lens == {GS_MIN_LEN - 1, GS_MIN_LEN, Threshold(script), Threshold(script) + 1}

\* Ordinal of attempt <<a, b>> in the flattened list.
Ord(a, b) == (a - 1) * NumUrls(script) + b

\* The entry and URL of the k-th attempt.
PosOf(k) == <<((k - 1) \div NumUrls(script)) + 1, ((k - 1) % NumUrls(script)) + 1>>

\* Destination an entry is saved to: one fixed path, or one file per model.
DestOf(s, a) == IF s = "search_model" THEN a ELSE 1

UsedDests(s, m) == IF s = "search_model" THEN 1..m ELSE {1}

Init ==
    /\ script \in Scripts
    /\ n \in 0..MaxSources
    /\ i = 0
    /\ j = 0
    /\ pc = "for"
    /\ exc = "none"
    /\ content = 0
    /\ temp \in (IF script = "download_model" THEN {NoFile, OldFile} ELSE {NoFile})
    /\ dest \in {f \in [1..MaxSources -> {NoFile, OldFile}] :
                    \A d \in 1..MaxSources : f[d] = OldFile => d \in UsedDests(script, n)}
    /\ result = "none"
    /\ downloaded_any = FALSE
    /\ exitCode = -1
    /\ reqs = <<>>
    /\ last = "none"
    /\ lastLen = 0
    /\ paused = FALSE
    /\ firstPass = NoPass
    /\ passSaveFailed = FALSE
    /\ finalized = 0
    /\ dest0 = dest
    /\ touched = FALSE
    /\ temp2 = NoFile
    /\ dest2 = NoFile
    /\ start2 = <<temp2, dest2>>
    /\ agree = TRUE

(***************************************************************************)
(* Decisions the three scripts share in shape.                             *)
(***************************************************************************)

\* A size test with the comparison turned round.
Accepts_Inverted(s, size) == size < Threshold(s)

\* A size test that lets the threshold itself through.
Accepts_AtLeast(s, size) == size >= Threshold(s)

\* The size test: strictly greater than the threshold.
Accepts(s, size) == size > Threshold(s)

\* An accepted payload after which every script goes on with the next source.
AfterAccept_NoReturn(s) == "for"

\* Where control goes once a payload is accepted and saved: download_model
\* and search_and_download return True, search_model.py goes on with the
\* next model.
AfterAccept(s) == IF s = "search_model" THEN "for" ELSE "returned"

\* Handlers that take HTTP errors only.
Handles_HTTPOnly(s, e) == IF IsHTTPError(e) THEN "HTTPError" ELSE "none"

\* The except clause that takes exception e, "none" when no clause does.
Handles(s, e) ==
    IF s = "github_search" /\ IsHTTPError(e) THEN "HTTPError" ELSE "Exception"

\* A 404 handler that gives up the whole run.
AfterHandler_Stop404(s, e) ==
    IF e = "http404" THEN "returned"
    ELSE IF s = "github_search" THEN "sleep" ELSE "for"

\* Where the handler of e leaves control: github_search.py continues at once
\* on a 404 and falls through to time.sleep otherwise; the other two scripts
\* continue.
AfterHandler(s, e) ==
    IF s = "github_search" /\ ~(IsHTTPError(e) /\ e = "http404") THEN "sleep" ELSE "for"

\* An exit status that ignores the outcome.
ExitStatus_AlwaysZero(success) == 0

\* sys.exit(0 if success else 1)
ExitStatus(success) == IF success THEN 0 ELSE 1

\* The for statement has another item: a further URL of the repository, or a
\* further entry of the list.
HasNext(a, b) == (a >= 1 /\ b < NumUrls(script)) \/ a < n

\* A loop that tries a failed source again.
NextPos_RetryFailed(a, b) ==
    IF last \in Failures THEN <<a, b>>
    ELSE IF a >= 1 /\ b < NumUrls(script) THEN <<a, b + 1>> ELSE <<a + 1, 1>>

\* An inner loop left after its first URL.
NextPos_FirstUrlOnly(a, b) == <<a + 1, 1>>

NextPos(a, b) == IF a >= 1 /\ b < NumUrls(script) THEN <<a, b + 1>> ELSE <<a + 1, 1>>

\* The first payload read whose length is over the threshold.
NotePass(l) ==
    IF firstPass = NoPass /\ l > Threshold(script)
    THEN [src |-> Ord(i, j), len |-> l]
    ELSE firstPass

\* A write of the current payload failed: was it that first payload?
NoteSaveFailed == passSaveFailed \/ firstPass.src = Ord(i, j)

\* open(path, 'ab'): an existing file keeps what it holds.
OpenWB_Append(f, k) == IF f.exists THEN f ELSE Opened(k)

\* open(path, 'wb') on a path that holds f: the file is created, or truncated
\* to nothing.
OpenWB(f, k) == Opened(k)

\* f.write of w of the l bytes of attempt k's payload into the open file f.
WriteInto(f, k, l, w) == Written(k, f.len + l, f.size + w)

\* A handler that leaves the temporary file where it is.
RemoveIfExists_Skip(f) == f

\* if os.path.exists(path): os.remove(path)
RemoveIfExists(f) == NoFile

fsVars    == <<temp, dest>>
shadowVars == <<temp2, dest2, agree>>

\* The path that held f holds g, a file created or modified by the step.
Changed(f, g) == g.exists /\ g # f

\* Bookkeeping every step does: what the run found stays on record, and a
\* step that creates or modifies a file marks the attempt.
Touch ==
    /\ touched' = \/ touched
                  \/ Changed(temp, temp')
                  \/ \E d \in 1..MaxSources : Changed(dest[d], dest'[d])
    /\ UNCHANGED <<dest0, start2>>
posVars   == <<script, n, i, j>>
ghostVars == <<reqs, last, lastLen, paused, firstPass, passSaveFailed, finalized>>
outVars   == <<result, downloaded_any, exitCode>>

(***************************************************************************)
(* download_model.py                                                       *)
(***************************************************************************)

\* for url in urls: (line 31), and return False after the loop (line 61)
DM_For ==
    /\ script = "download_model"
    /\ pc = "for"
    /\ IF HasNext(i, j)
       THEN /\ i' = NextPos(i, j)[1]
            /\ j' = NextPos(i, j)[2]
            /\ pc' = "request"
            /\ UNCHANGED result
       ELSE /\ result' = "False"
            /\ pc' = "returned"
            /\ UNCHANGED <<i, j>>
    /\ UNCHANGED <<script, n, exc, content, fsVars, downloaded_any, exitCode, ghostVars>>
    /\ UNCHANGED shadowVars
    /\ Touch

\* urllib.request.urlopen(req, timeout=60) (line 41)
DM_Request ==
    /\ script = "download_model"
    /\ pc = "request"
    /\ reqs' = Append(reqs, <<i, j>>)
    /\ paused' = FALSE
    /\ last' = "pending"
    /\ \E o \in UrlopenOutcomes :
          IF o = "ok"
          THEN pc' = "open" /\ UNCHANGED exc
          ELSE pc' = "except" /\ exc' = o
    /\ UNCHANGED <<posVars, content, fsVars, outVars, lastLen, firstPass,
                   passSaveFailed, finalized>>
    /\ touched' = FALSE
    /\ UNCHANGED <<dest0, start2, shadowVars>>

\* open(temp_path, 'wb') (line 42): creates or truncates the temporary file
DM_Open ==
    /\ script = "download_model"
    /\ pc = "open"
    /\ temp' = OpenWB(temp, Ord(i, j))
    /\ pc' = "read"
    /\ UNCHANGED <<posVars, exc, content, dest, outVars, ghostVars>>
    /\ temp2' = OpenWB(temp2, Ord(i, j))
    /\ UNCHANGED <<dest2, agree>>
    /\ Touch

\* response.read() (line 43)
DM_Read ==
    /\ script = "download_model"
    /\ pc = "read"
    /\ \/ \E l \in Lens :
            /\ content' = l
            /\ firstPass' = NotePass(l)
            /\ pc' = "write"
            /\ UNCHANGED exc
       \/ /\ exc' = "incomplete_read"
          /\ pc' = "except"
          /\ UNCHANGED <<content, firstPass>>
    /\ UNCHANGED <<posVars, fsVars, outVars, reqs, last, lastLen, paused,
                   passSaveFailed, finalized>>
    /\ UNCHANGED shadowVars
    /\ Touch

\* out_file.write(...) (line 43): all of the payload, or an OSError part-way
DM_Write ==
    /\ script = "download_model"
    /\ pc = "write"
    /\ \/ /\ temp' = WriteInto(temp, Ord(i, j), content, content)
          /\ temp2' = WriteInto(temp2, Ord(i, j), content, content)
          /\ pc' = "check"
          /\ UNCHANGED <<exc, passSaveFailed>>
       \/ \E w \in PartialSizes(content) :
            /\ temp' = WriteInto(temp, Ord(i, j), content, w)
            /\ temp2' = WriteInto(temp2, Ord(i, j), content, w)
            /\ exc' = "oserror"
            /\ pc' = "except"
            /\ passSaveFailed' = NoteSaveFailed
    /\ UNCHANGED <<posVars, content, dest, outVars, reqs, last, lastLen, paused,
                   firstPass, finalized>>
    /\ UNCHANGED <<dest2, agree>>
    /\ Touch

\* size = os.path.getsize(temp_path) ... os.remove(temp_path) (lines 45-54)
DM_Check ==
    /\ script = "download_model"
    /\ pc = "check"
    /\ lastLen' = temp.size
    /\ IF Accepts(script, temp.size)
       THEN /\ dest' = [dest EXCEPT ![DestOf(script, i)] = temp]
            /\ temp' = NoFile
            /\ finalized' = finalized + 1
            /\ last' = "accepted"
            /\ pc' = AfterAccept(script)
            /\ result' = IF AfterAccept(script) = "returned" THEN "True" ELSE result
       ELSE /\ temp' = NoFile
            /\ last' = "toosmall"
            /\ pc' = "for"
            /\ UNCHANGED <<dest, finalized, result>>
    /\ UNCHANGED <<posVars, exc, content, downloaded_any, exitCode, reqs, paused,
                   firstPass, passSaveFailed>>
    /\ agree' = (agree /\ (Accepts(script, temp2.size) <=> Accepts(script, temp.size)))
    /\ dest2' = (IF Accepts(script, temp2.size) THEN temp2 ELSE dest2)
    /\ temp2' = NoFile
    /\ Touch

\* except Exception as e: ... continue (lines 55-59)
DM_Except ==
    /\ script = "download_model"
    /\ pc = "except"
    /\ IF Handles(script, exc) = "none"
       THEN /\ pc' = "uncaught"
            /\ UNCHANGED <<exc, temp, last>>
       ELSE /\ temp' = RemoveIfExists(temp)
            /\ last' = exc
            /\ exc' = "none"
            /\ pc' = AfterHandler(script, exc)
    /\ UNCHANGED <<posVars, content, dest, outVars, reqs, lastLen, paused,
                   firstPass, passSaveFailed, finalized>>
    /\ temp2' = (IF Handles(script, exc) = "none" THEN temp2 ELSE RemoveIfExists(temp2))
    /\ UNCHANGED <<dest2, agree>>
    /\ Touch

\* success = download_model(); sys.exit(0 if success else 1) (lines 63-65)
DM_Main ==
    /\ script = "download_model"
    /\ pc = "returned"
    /\ exitCode' = ExitStatus(result = "True")
    /\ pc' = "exited"
    /\ UNCHANGED <<posVars, exc, content, fsVars, result, downloaded_any, ghostVars>>
    /\ UNCHANGED shadowVars
    /\ Touch

DM_Next ==
    \/ DM_For
    \/ DM_Request
    \/ DM_Open
    \/ DM_Read
    \/ DM_Write
    \/ DM_Check
    \/ DM_Except
    \/ DM_Main

(***************************************************************************)
(* github_search.py                                                        *)
(***************************************************************************)

\* for owner, repo, path in repos_to_try: / for url in urls: (lines 27, 36),
\* and return False after the loops (line 72)
GS_For ==
    /\ script = "github_search"
    /\ pc = "for"
    /\ IF HasNext(i, j)
       THEN /\ i' = NextPos(i, j)[1]
            /\ j' = NextPos(i, j)[2]
            /\ pc' = "request"
            /\ UNCHANGED result
       ELSE /\ result' = "False"
            /\ pc' = "returned"
            /\ UNCHANGED <<i, j>>
    /\ UNCHANGED <<script, n, exc, content, fsVars, downloaded_any, exitCode, ghostVars>>
    /\ UNCHANGED shadowVars
    /\ Touch

\* urllib.request.urlopen(req, timeout=60) (line 45)
GS_Request ==
    /\ script = "github_search"
    /\ pc = "request"
    /\ reqs' = Append(reqs, <<i, j>>)
    /\ paused' = FALSE
    /\ last' = "pending"
    /\ \E o \in UrlopenOutcomes :
          IF o = "ok"
          THEN pc' = "read" /\ UNCHANGED exc
          ELSE pc' = "except" /\ exc' = o
    /\ UNCHANGED <<posVars, content, fsVars, outVars, lastLen, firstPass,
                   passSaveFailed, finalized>>
    /\ touched' = FALSE
    /\ UNCHANGED <<dest0, start2, shadowVars>>

\* content = response.read() and the two size tests (lines 46-61)
GS_Read ==
    /\ script = "github_search"
    /\ pc = "read"
    /\ \/ \E l \in Lens :
            /\ content' = l
            /\ firstPass' = NotePass(l)
            /\ IF l < GS_MIN_LEN
               THEN last' = "tiny" /\ lastLen' = l /\ pc' = "for"
               ELSE IF Accepts(script, l)
                    THEN pc' = "open" /\ UNCHANGED <<last, lastLen>>
                    ELSE last' = "toosmall" /\ lastLen' = l /\ pc' = "sleep"
            /\ UNCHANGED exc
       \/ /\ exc' = "incomplete_read"
          /\ pc' = "except"
          /\ UNCHANGED <<content, firstPass, last, lastLen>>
    /\ UNCHANGED <<posVars, fsVars, outVars, reqs, paused, passSaveFailed, finalized>>
    /\ UNCHANGED shadowVars
    /\ Touch

\* open(output_path, 'wb') (line 56): creates or truncates the destination
GS_Open ==
    /\ script = "github_search"
    /\ pc = "open"
    /\ dest' = [dest EXCEPT ![DestOf(script, i)] = OpenWB(dest[DestOf(script, i)], Ord(i, j))]
    /\ pc' = "write"
    /\ UNCHANGED <<posVars, exc, content, temp, outVars, ghostVars>>
    /\ dest2' = OpenWB(dest2, Ord(i, j))
    /\ UNCHANGED <<temp2, agree>>
    /\ Touch

\* f.write(content) ... return True (lines 57-59), or an OSError part-way
GS_Write ==
    /\ script = "github_search"
    /\ pc = "write"
    /\ \/ /\ dest' = [dest EXCEPT ![DestOf(script, i)] =
                        WriteInto(dest[DestOf(script, i)], Ord(i, j), content, content)]
          /\ dest2' = WriteInto(dest2, Ord(i, j), content, content)
          /\ finalized' = finalized + 1
          /\ last' = "accepted"
          /\ lastLen' = content
          /\ pc' = AfterAccept(script)
          /\ result' = IF AfterAccept(script) = "returned" THEN "True" ELSE result
          /\ UNCHANGED <<exc, passSaveFailed>>
       \/ \E w \in PartialSizes(content) :
            /\ dest' = [dest EXCEPT ![DestOf(script, i)] =
                          WriteInto(dest[DestOf(script, i)], Ord(i, j), content, w)]
            /\ dest2' = WriteInto(dest2, Ord(i, j), content, w)
            /\ exc' = "oserror"
            /\ pc' = "except"
            /\ passSaveFailed' = NoteSaveFailed
            /\ UNCHANGED <<finalized, last, lastLen, result>>
    /\ UNCHANGED <<posVars, content, temp, downloaded_any, exitCode, reqs, paused,
                   firstPass>>
    /\ UNCHANGED <<temp2, agree>>
    /\ Touch

\* except urllib.error.HTTPError / except Exception (lines 63-68)
GS_Except ==
    /\ script = "github_search"
    /\ pc = "except"
    /\ IF Handles(script, exc) = "none"
       THEN /\ pc' = "uncaught"
            /\ UNCHANGED <<exc, last>>
       ELSE /\ last' = exc
            /\ exc' = "none"
            /\ pc' = AfterHandler(script, exc)
    /\ UNCHANGED <<posVars, content, fsVars, outVars, reqs, lastLen, paused,
                   firstPass, passSaveFailed, finalized>>
    /\ UNCHANGED shadowVars
    /\ Touch

\* time.sleep(0.5) (line 70)
GS_Sleep ==
    /\ script = "github_search"
    /\ pc = "sleep"
    /\ paused' = TRUE
    /\ pc' = "for"
    /\ UNCHANGED <<posVars, exc, content, fsVars, outVars, reqs, last, lastLen,
                   firstPass, passSaveFailed, finalized>>
    /\ UNCHANGED shadowVars
    /\ Touch

\* success = search_and_download(); ...; exit(0 if success else 1) (lines 74-89)
GS_Main ==
    /\ script = "github_search"
    /\ pc = "returned"
    /\ exitCode' = ExitStatus(result = "True")
    /\ pc' = "exited"
    /\ UNCHANGED <<posVars, exc, content, fsVars, result, downloaded_any, ghostVars>>
    /\ UNCHANGED shadowVars
    /\ Touch

GS_Next ==
    \/ GS_For
    \/ GS_Request
    \/ GS_Read
    \/ GS_Open
    \/ GS_Write
    \/ GS_Except
    \/ GS_Sleep
    \/ GS_Main

(***************************************************************************)
(* search_model.py                                                         *)
(***************************************************************************)

\* for url, filename in models: (line 28); the loop's end leads to line 57
SM_For ==
    /\ script = "search_model"
    /\ pc = "for"
    /\ IF HasNext(i, j)
       THEN /\ i' = NextPos(i, j)[1]
            /\ j' = NextPos(i, j)[2]
            /\ pc' = "request"
       ELSE /\ pc' = "final"
            /\ UNCHANGED <<i, j>>
    /\ UNCHANGED <<script, n, exc, content, fsVars, outVars, ghostVars>>
    /\ UNCHANGED shadowVars
    /\ Touch

\* urllib.request.urlopen(req, timeout=120) (line 38)
SM_Request ==
    /\ script = "search_model"
    /\ pc = "request"
    /\ reqs' = Append(reqs, <<i, j>>)
    /\ paused' = FALSE
    /\ last' = "pending"
    /\ \E o \in UrlopenOutcomes :
          IF o = "ok"
          THEN pc' = "read" /\ UNCHANGED exc
          ELSE pc' = "except" /\ exc' = o
    /\ UNCHANGED <<posVars, content, fsVars, outVars, lastLen, firstPass,
                   passSaveFailed, finalized>>
    /\ touched' = FALSE
    /\ UNCHANGED <<dest0, start2, shadowVars>>

\* content = response.read() (line 39)
SM_Read ==
    /\ script = "search_model"
    /\ pc = "read"
    /\ \/ \E l \in Lens :
            /\ content' = l
            /\ firstPass' = NotePass(l)
            /\ pc' = "open"
            /\ UNCHANGED exc
       \/ /\ exc' = "incomplete_read"
          /\ pc' = "except"
          /\ UNCHANGED <<content, firstPass>>
    /\ UNCHANGED <<posVars, fsVars, outVars, reqs, last, lastLen, paused,
                   passSaveFailed, finalized>>
    /\ UNCHANGED shadowVars
    /\ Touch

\* open(output_path, 'wb') (line 40): creates or truncates the model's file
SM_Open ==
    /\ script = "search_model"
    /\ pc = "open"
    /\ dest' = [dest EXCEPT ![DestOf(script, i)] = OpenWB(dest[DestOf(script, i)], Ord(i, j))]
    /\ pc' = "write"
    /\ UNCHANGED <<posVars, exc, content, temp, outVars, ghostVars>>
    /\ UNCHANGED shadowVars
    /\ Touch

\* f.write(content) (line 41): all of the payload, or an OSError part-way
SM_Write ==
    /\ script = "search_model"
    /\ pc = "write"
    /\ \/ /\ dest' = [dest EXCEPT ![DestOf(script, i)] =
                        WriteInto(dest[DestOf(script, i)], Ord(i, j), content, content)]
          /\ pc' = "check"
          /\ UNCHANGED <<exc, passSaveFailed>>
       \/ \E w \in PartialSizes(content) :
            /\ dest' = [dest EXCEPT ![DestOf(script, i)] =
                          WriteInto(dest[DestOf(script, i)], Ord(i, j), content, w)]
            /\ exc' = "oserror"
            /\ pc' = "except"
            /\ passSaveFailed' = NoteSaveFailed
    /\ UNCHANGED <<posVars, content, temp, outVars, reqs, last, lastLen, paused,
                   firstPass, finalized>>
    /\ UNCHANGED shadowVars
    /\ Touch

\* size = os.path.getsize(output_path) ... os.remove(output_path) (lines 43-51)
SM_Check ==
    /\ script = "search_model"
    /\ pc = "check"
    /\ lastLen' = dest[DestOf(script, i)].size
    /\ IF Accepts(script, dest[DestOf(script, i)].size)
       THEN /\ downloaded_any' = TRUE
            /\ finalized' = finalized + 1
            /\ last' = "accepted"
            /\ pc' = AfterAccept(script)
            /\ UNCHANGED dest
       ELSE /\ dest' = [dest EXCEPT ![DestOf(script, i)] = NoFile]
            /\ last' = "toosmall"
            /\ pc' = "for"
            /\ UNCHANGED <<downloaded_any, finalized>>
    /\ UNCHANGED <<posVars, exc, content, temp, result, exitCode, reqs, paused,
                   firstPass, passSaveFailed>>
    /\ UNCHANGED shadowVars
    /\ Touch

\* except Exception as e: ... continue (lines 53-55)
SM_Except ==
    /\ script = "search_model"
    /\ pc = "except"
    /\ IF Handles(script, exc) = "none"
       THEN /\ pc' = "uncaught"
            /\ UNCHANGED <<exc, last>>
       ELSE /\ last' = exc
            /\ exc' = "none"
            /\ pc' = AfterHandler(script, exc)
    /\ UNCHANGED <<posVars, content, fsVars, outVars, reqs, lastLen, paused,
                   firstPass, passSaveFailed, finalized>>
    /\ UNCHANGED shadowVars
    /\ Touch

\* if downloaded_any: ... exit(0) else: ... exit(1) (lines 57-67)
SM_Final ==
    /\ script = "search_model"
    /\ pc = "final"
    /\ exitCode' = ExitStatus(downloaded_any)
    /\ pc' = "exited"
    /\ UNCHANGED <<posVars, exc, content, fsVars, result, downloaded_any, ghostVars>>
    /\ UNCHANGED shadowVars
    /\ Touch

SM_Next ==
    \/ SM_For
    \/ SM_Request
    \/ SM_Read
    \/ SM_Open
    \/ SM_Write
    \/ SM_Check
    \/ SM_Except
    \/ SM_Final

Next == DM_Next \/ GS_Next \/ SM_Next

Spec == Init /\ [][Next]_vars

(***************************************************************************)
(* Properties                                                              *)
(***************************************************************************)

\* Sources the script's list holds, URL by URL.
NumAttempts == n * NumUrls(script)

PassFile == Written(firstPass.src, firstPass.len, firstPass.len)

Failed ==
    \/ result = "False"
    \/ script = "search_model" /\ pc \in {"final", "exited"} /\ ~downloaded_any

\* A file this run wrote is at destination d.
WroteDest(d) == dest[d].exists /\ dest[d].src > 0

\* C3: when no requested source delivered a payload over the threshold, the
\* run ends in failure and no file written by the run is at a destination
\* (a file that was there before the run is not this run's product).
C3_NothingLeftBehind ==
    ((result # "none" \/ pc \in {"final", "exited"}) /\ firstPass = NoPass)
        => (Failed /\ \A d \in UsedDests(script, n) : ~WroteDest(d))

\* C4: in every state, a destination holds no file written by this run, or a
\* complete payload that passed the size test.
C4_NeverPartial ==
    \A d \in UsedDests(script, n) :
        WroteDest(d) =>
            (dest[d].size = dest[d].len /\ dest[d].len > Threshold(script))

\* C5: the requests issued are exactly the first sources of the list, in list
\* order, each once (repository by repository and URL by URL in
\* github_search.py), and every attempt entered has issued one request as
\* soon as it is past its urlopen call.
C5_InOrderOnce ==
    /\ \A m \in 1..Len(reqs) : reqs[m] = PosOf(m)
    /\ i = 0 => reqs = <<>>
    /\ i >= 1 => Len(reqs) = Ord(i, j) - (IF pc = "request" THEN 1 ELSE 0)

\* A source of the second repository is requested after an earlier failure.
C5_Witness ==
    /\ script = "github_search"
    /\ i = 2
    /\ j = 2
    /\ pc = "except"
    /\ exc = "timeout"
    /\ Len(reqs) = UrlsPerRepo + 2

\* C6: whatever an attempt raises is taken by a handler of the loop: no
\* exception leaves the fetch, the handler leaves the run going at the same
\* list position (the for statement then moves on), and the run fails only
\* with every source of the list requested.
C6_RecoveredLocally ==
    [][/\ pc' # "uncaught"
       /\ pc = "except" =>
            (/\ pc' \in {"for", "sleep"}
             /\ <<i', j'>> = <<i, j>>
             /\ result' = "none"
             /\ exitCode' = -1)
       /\ (result' = "False" \/ exitCode' = 1) => Len(reqs') = NumAttempts]_vars

\* A failed local write was recovered and the next source answered.
C6_Witness ==
    /\ last = "pending"
    /\ pc = "read"
    /\ Len(reqs) >= 2
    /\ \E d \in UsedDests(script, n) : WroteDest(d) /\ dest[d].size < dest[d].len

\* An accepted payload of this run is complete at destination d.
Saved(d) ==
    /\ WroteDest(d)
    /\ dest[d].size = dest[d].len
    /\ dest[d].len > Threshold(script)

\* C7: the process exits with 0 or 1; with 0 exactly when a payload was
\* accepted and is saved at its destination, with 1 otherwise, and then
\* every source was requested.
C7_ExitStatus ==
    pc = "exited" =>
        /\ exitCode \in {0, 1}
        /\ exitCode = 0 <=> finalized >= 1
        /\ exitCode = 0 <=> \E d \in UsedDests(script, n) : Saved(d)
        /\ exitCode = 1 => Len(reqs) = NumAttempts

\* search_model.py exits 0 although its last model failed.
C7_Witness ==
    /\ script = "search_model"
    /\ pc = "exited"
    /\ exitCode = 0
    /\ last \in Failures
    /\ finalized = 1

\* C8: a payload is accepted only when longer than the threshold; one of
\* exactly the threshold length is rejected, and the rejecting step leaves
\* the run going with the next source; one a byte longer is accepted (in
\* github_search.py: goes on to be written to the destination).
C8_StrictlyGreater ==
    [][/\ last' = "accepted" => lastLen' >= Threshold(script) + 1
       /\ last' = "toosmall" => lastLen' <= Threshold(script)
       /\ (last = "pending" /\ last' = "toosmall") =>
            (/\ pc' \in {"for", "sleep"}
             /\ result' = "none"
             /\ exitCode' = -1)
       /\ (pc = "check" /\ content = Threshold(script)) => last' = "toosmall"
       /\ (pc = "check" /\ content = Threshold(script) + 1) => last' = "accepted"
       /\ (script = "github_search" /\ pc = "read" /\ pc' # "except") =>
            (/\ content' = Threshold(script) => last' = "toosmall"
             /\ content' = Threshold(script) + 1 => pc' = "open")]_vars

\* search_model.py kept a payload one byte over the threshold and then
\* rejected one of exactly the threshold; the next model is about to be tried.
C8_Witness ==
    /\ script = "search_model"
    /\ pc = "request"
    /\ last = "toosmall"
    /\ lastLen = SM_THRESHOLD
    /\ \E d \in UsedDests(script, n) : Saved(d) /\ dest[d].len = SM_THRESHOLD + 1

C10_SameStepsAfter404 ==
    (pc = "request" /\ last \in Failures)
        => paused = (script = "github_search")

\* C10 (amended): a 404 ends neither the run nor the loop and the source tried
\* next is the next of the list, as after any other failure; in
\* github_search.py the 404 handler continues at once, so the pause that
\* follows every other failed attempt is skipped after a 404.
C10_NoEarlyTermination ==
    [][/\ (pc' = "request" /\ last' \in Failures) =>
            (/\ paused' = (script = "github_search" /\ last' # "http404")
             /\ <<i', j'>> = PosOf(Len(reqs') + 1))
       /\ (pc = "except" /\ exc = "http404") =>
            (/\ pc' = "for"
             /\ result' = result
             /\ exitCode' = exitCode)]_vars

\* github_search.py starts an attempt right after a 404, without the pause.
C10_Witness ==
    /\ script = "github_search"
    /\ pc = "request"
    /\ last = "http404"
    /\ ~paused
    /\ Len(reqs) >= 1

\* C11: an attempt that ends in a retrieval failure or in a rejection by the
\* size test has created or modified no file, temporary or destination.
C11_WritesOnlyOnSuccess ==
    last \in (Failures \cup {"toosmall", "tiny"}) => ~touched

(***************************************************************************)
(* Running download_model or search_and_download a second time.  The files *)
(* temp2 and dest2 are those of a second run that meets, statement by      *)
(* statement, the answers and write outcomes of the first; agree records   *)
(* whether it takes the same branches.  Here the second run may find any   *)
(* file an earlier run can have left.                                      *)
(***************************************************************************)

\* Longest source list explored for the second run.
MaxRerunSources == 2

\* Files a run of script s over m entries may find at its destination.
StartFiles(s, m) ==
    {NoFile, OldFile} \cup
    {Written(k, l, l) : k \in 1..(m * NumUrls(s)), l \in {x \in Lens : x > Threshold(s)}}

InitRerun ==
    /\ script \in {"download_model", "github_search"}
    /\ n \in 1..MaxRerunSources
    /\ i = 0
    /\ j = 0
    /\ pc = "for"
    /\ exc = "none"
    /\ content = 0
    /\ temp \in (IF script = "download_model" THEN {NoFile, OldFile} ELSE {NoFile})
    /\ dest \in {f \in [1..MaxSources -> {NoFile, OldFile}] :
                    \A d \in 1..MaxSources : f[d] = OldFile => d \in UsedDests(script, n)}
    /\ result = "none"
    /\ downloaded_any = FALSE
    /\ exitCode = -1
    /\ reqs = <<>>
    /\ last = "none"
    /\ lastLen = 0
    /\ paused = FALSE
    /\ firstPass = NoPass
    /\ passSaveFailed = FALSE
    /\ finalized = 0
    /\ dest0 = dest
    /\ touched = FALSE
    /\ temp2 \in (IF script = "download_model" THEN {NoFile, OldFile} ELSE {NoFile})
    /\ dest2 \in StartFiles(script, n)
    /\ start2 = <<temp2, dest2>>
    /\ agree = TRUE

SpecRerun == InitRerun /\ [][DM_Next \/ GS_Next]_vars

C13_TempGone ==
    (script = "download_model" /\ i >= 1
         /\ ((pc = "request" /\ i >= 2) \/ result # "none"))
        => ~temp.exists

\* The second attempt starts after a write into the temporary file failed.
C13_Witness ==
    /\ script = "download_model"
    /\ pc = "request"
    /\ i = 2
    /\ last = "oserror"
    /\ touched
    /\ ~temp.exists

\* C14: in download_model.py and github_search.py the destination is as the
\* run found it for as long as no payload has passed the size test, so also
\* when such a run returns; and a step changes the destination only right
\* after a size test that came out positive.
C14_OldFileKept ==
    [][script # "search_model" =>
          /\ firstPass' = NoPass => dest' = dest0'
          /\ dest' # dest =>
               \/ script = "download_model" /\ pc = "check" /\ temp.size > Threshold(script)
               \/ script = "github_search" /\ pc \in {"open", "write"}
                    /\ content > Threshold(script)]_vars

\* search_and_download gave up, its last payload exactly at the threshold,
\* and the file it found is still there.
C14_Witness ==
    /\ script = "github_search"
    /\ result = "False"
    /\ firstPass = NoPass
    /\ lastLen = GS_THRESHOLD
    /\ dest0[1] = OldFile
    /\ dest[1] = OldFile

\* Each statement that can run does run in the end: a request returns or
\* times out, and nothing else waits.
FairSpec == Spec /\ WF_vars(Next)

\* Requests made for entry a of the list.
RequestsFor(a) == Cardinality({m \in 1..Len(reqs) : reqs[m][1] = a})

\* C15: every run ends, and on the way the position in the list never goes
\* back, no entry is requested more often than it has URLs (once in
\* download_model.py and search_model.py, four times per repository in
\* github_search.py), and search_model.py ends with exactly one request for
\* every listed model.
C15_Terminates ==
    /\ <>(pc = "exited")
    /\ [][/\ Ord(i', j') >= Ord(i, j)
          /\ Len(reqs') <= NumAttempts
          /\ \A a \in 1..n : RequestsFor(a)' <= NumUrls(script)
          /\ (script = "search_model" /\ pc' = "exited") =>
                \A a \in 1..n : RequestsFor(a)' = 1]_vars

\* search_and_download ended after asking every URL of every repository.
C15_Witness ==
    /\ script = "github_search"
    /\ pc = "exited"
    /\ n >= 2
    /\ Len(reqs) = NumAttempts
    /\ \A a \in 1..n : RequestsFor(a) = UrlsPerRepo

====
